---------------------------- MODULE Spec2Model ----------------------------
(***************************************************************************)
(* Model of app.py: a career dataset loaded once at startup, the read-only *)
(* request handlers over it (categories, category rows, skill matching,    *)
(* resume analysis) and the Gemini chat bridge with its retry loop.        *)
(*                                                                         *)
(* A Python str is a sequence of one-character strings, so that split,     *)
(* strip, lower, join and the substring test are computed, not assumed.    *)
(***************************************************************************)
EXTENDS Integers, Sequences, FiniteSets, TLC

VARIABLES
    source,    \* what pd.read_csv(CSV_FILE) met at startup
    df,        \* the module-level DataFrame: a sequence of rows
    client,    \* the module-level Gemini client handle, or None
    pc,        \* position of the worker: "idle", "calling", "sleeping",
               \* "responding" (the handler has returned its response)
    req,       \* the request being handled / handled last
    resp,      \* its response, NoResp while the handler still runs
    attempt,   \* loop variable of chat_with_gemini
    outcomes,  \* log of the generate_content calls of the current request
    sleeps     \* log of the time.sleep arguments of the current request

vars == <<source, df, client, pc, req, resp, attempt, outcomes, sleeps>>

---------------------------------------------------------------------------
(* Bounds of the model *)

MaxRows == 3

MaxCount == 3

---------------------------------------------------------------------------
(* Python str operations *)

\* The characters in code point order (what sorted() compares by).
UpperChars ==
    <<"A", "B", "C", "D", "E", "F", "G", "H", "I", "J", "K", "L", "M",
      "N", "O", "P", "Q", "R", "S", "T", "U", "V", "W", "X", "Y", "Z">>

LowerChars ==
    <<"a", "b", "c", "d", "e", "f", "g", "h", "i", "j", "k", "l", "m",
      "n", "o", "p", "q", "r", "s", "t", "u", "v", "w", "x", "y", "z">>

Chars == <<" ", "'", ",", "/">> \o UpperChars \o LowerChars

Ord(c) == CHOOSE i \in 1..Len(Chars) : Chars[i] = c

LowerChar(c) ==
    IF \E i \in 1..Len(UpperChars) : UpperChars[i] = c
    THEN LowerChars[CHOOSE i \in 1..Len(UpperChars) : UpperChars[i] = c]
    ELSE c

IsSpace(c) == c = " "

RECURSIVE lower(_)
lower(s) == IF s = <<>> THEN <<>> ELSE <<LowerChar(Head(s))>> \o lower(Tail(s))

RECURSIVE lstrip(_)
lstrip(s) == IF s # <<>> /\ IsSpace(Head(s)) THEN lstrip(Tail(s)) ELSE s

RECURSIVE rstrip(_)
rstrip(s) ==
    IF s # <<>> /\ IsSpace(s[Len(s)]) THEN rstrip(SubSeq(s, 1, Len(s) - 1)) ELSE s

strip(s) == rstrip(lstrip(s))

\* s.split(","): the pieces between commas, empty pieces kept.
RECURSIVE SplitFrom(_, _)
SplitFrom(s, cur) ==
    IF s = <<>> THEN <<cur>>
    ELSE IF Head(s) = "," THEN <<cur>> \o SplitFrom(Tail(s), <<>>)
    ELSE SplitFrom(Tail(s), Append(cur, Head(s)))

split(s) == SplitFrom(s, <<>>)

CommaSpace == <<",", " ">>

\* ", ".join(parts)
RECURSIVE join(_)
join(parts) ==
    IF parts = <<>> THEN <<>>
    ELSE IF Len(parts) = 1 THEN parts[1]
    ELSE parts[1] \o CommaSpace \o join(Tail(parts))

\* t in s
contains(s, t) ==
    \E i \in 0..(Len(s) - Len(t)) : SubSeq(s, i + 1, i + Len(t)) = t

\* a < b for str
RECURSIVE StrLess(_, _)
StrLess(a, b) ==
    IF b = <<>> THEN FALSE
    ELSE IF a = <<>> THEN TRUE
    ELSE IF Head(a) = Head(b) THEN StrLess(Tail(a), Tail(b))
    ELSE Ord(Head(a)) < Ord(Head(b))

\* [s.strip().lower() for s in text.split(",") if s.strip()], as a list
RECURSIVE TokenListOf(_)
TokenListOf(pieces) ==
    IF pieces = <<>> THEN <<>>
    ELSE (IF strip(Head(pieces)) # <<>> THEN <<lower(strip(Head(pieces)))>> ELSE <<>>)
           \o TokenListOf(Tail(pieces))

TokenList(text) == TokenListOf(split(text))

Range(f) == {f[i] : i \in DOMAIN f}

\* set([...]) of the list above
TokenSet(text) == Range(TokenList(text))

---------------------------------------------------------------------------
(* The dataset *)

\* A missing cell (NaN): no str is equal to it.
NaN == <<"NaN">>

notna(v) == v # NaN

SkillCols == <<"Skill", "Interests", "Hobby">>

Row(cat, sk, it, hb, car, edu) ==
    [Career_category |-> cat, Skill |-> sk, Interests |-> it, Hobby |-> hb,
     Career |-> car, Recommended_education |-> edu]

\* The DataFrame built when the CSV cannot be used.
MockDF ==
    << Row(<<"T", "e", "c", "h", "n", "o", "l", "o", "g", "y">>,
           <<"P", "r", "o", "g", "r", "a", "m", "m", "i", "n", "g", ",", " ", "A", "I">>,
           <<"V", "i", "d", "e", "o", " ", "G", "a", "m", "e", "s", ",", " ", "R", "o", "b", "o", "t", "i", "c", "s">>,
           <<"C", "o", "d", "i", "n", "g", ",", " ", "R", "e", "a", "d", "i", "n", "g">>,
           <<"S", "o", "f", "t", "w", "a", "r", "e", " ", "E", "n", "g", "i", "n", "e", "e", "r">>,
           <<"B", "a", "c", "h", "e", "l", "o", "r", "'", "s", " ", "i", "n", " ", "C", "S">>),
       Row(<<"H", "e", "a", "l", "t", "h", "c", "a", "r", "e">>,
           <<"E", "m", "p", "a", "t", "h", "y", ",", " ", "B", "i", "o", "l", "o", "g", "y">>,
           <<"P", "a", "t", "i", "e", "n", "t", " ", "C", "a", "r", "e", ",", " ", "R", "e", "s", "e", "a", "r", "c", "h">>,
           <<"V", "o", "l", "u", "n", "t", "e", "e", "r", "i", "n", "g", ",", " ", "F", "i", "t", "n", "e", "s", "s">>,
           <<"N", "u", "r", "s", "e">>,
           <<"B", "S", "N">>),
       Row(<<"E", "d", "u", "c", "a", "t", "i", "o", "n">>,
           <<"T", "e", "a", "c", "h", "i", "n", "g", ",", " ", "C", "o", "m", "m", "u", "n", "i", "c", "a", "t", "i", "o", "n">>,
           <<"M", "e", "n", "t", "o", "r", "i", "n", "g", ",", " ", "L", "e", "a", "r", "n", "i", "n", "g">>,
           <<"T", "u", "t", "o", "r", "i", "n", "g", ",", " ", "P", "u", "b", "l", "i", "c", " ", "S", "p", "e", "a", "k", "i", "n", "g">>,
           <<"H", "i", "g", "h", " ", "S", "c", "h", "o", "o", "l", " ", "T", "e", "a", "c", "h", "e", "r">>,
           <<"M", "a", "s", "t", "e", "r", "'", "s", " ", "i", "n", " ", "E", "d", "u", "c", "a", "t", "i", "o", "n">>) >>

\* Rows a CSV file may hold: categories differing in case, a missing
\* category, missing cells, a row with no cell at all, a cell with no token,
\* tokens repeated inside a row and shared between rows.
RowPool ==
    { Row(<<"T", "e", "c", "h">>, <<"a", ",", " ", "B">>, NaN, <<"c">>,
          <<"S", "E">>, <<"B", "S">>),
      Row(<<"t", "e", "c", "h">>, <<"A">>, <<"a", " ", ",">>, NaN,
          <<"Q", "A">>, <<"B", "S">>),
      Row(<<"E", "d", "u">>, NaN, NaN, NaN,
          <<"T">>, NaN),
      Row(NaN, <<"b">>, <<"c">>, <<"a">>,
          <<"X">>, <<"M", "S">>),
      Row(<<"E", "d", "u">>, <<" ">>, NaN, <<"c", ",", "b">>,
          <<"T">>, <<"M", "S">>) }

RECURSIVE SeqsUpTo(_, _)
SeqsUpTo(S, n) ==
    IF n = 0 THEN {<<>>}
    ELSE LET shorter == SeqsUpTo(S, n - 1)
         IN  shorter \cup {Append(s, x) : s \in {t \in shorter : Len(t) = n - 1}, x \in S}

\* What reading CSV_FILE can meet: no such file, a file pandas cannot
\* parse, or a table of rows (possibly none).
Sources ==
    {[kind |-> "missing"], [kind |-> "unreadable"]}
        \cup {[kind |-> "table", rows |-> t] : t \in SeqsUpTo(RowPool, MaxRows)}

\* Faulty variant: an empty frame is kept.
LoadDatasetKeepsEmpty(src) == IF src.kind # "table" THEN MockDF ELSE src.rows

\* Lines 25-40: read the CSV, fall back to the mock table when reading
\* raises or the frame is empty.
LoadDataset(src) ==
    IF src.kind # "table" THEN MockDF
    ELSE IF src.rows = <<>> THEN MockDF
    ELSE src.rows

None == "None"

GenaiClient == "genai.Client"

\* Lines 14-22: the constructor is called with or without the key and
\* either returns a client or raises.
InitClient(keySet, ctorRaises) == IF ctorRaises THEN None ELSE GenaiClient

---------------------------------------------------------------------------
(* Utility functions *)

Categories == {df[i].Career_category : i \in DOMAIN df}

\* sorted(list of distinct str)
RECURSIVE SortedStrs(_)
SortedStrs(S) ==
    IF S = {} THEN <<>>
    ELSE LET m == CHOOSE x \in S : \A y \in S \ {x} : StrLess(x, y)
         IN  <<m>> \o SortedStrs(S \ {m})

get_categories == SortedStrs({c \in Categories : notna(c)})

\* combined: the row's present cells, in column order
PresentCells(row) == SelectSeq(<<row.Skill, row.Interests, row.Hobby>>, notna)

\* Faulty variant: the comparison keeps the case.
CategoryMatchesExact(row, category) ==
    notna(row.Career_category) /\ row.Career_category = category

\* df['Career_category'].str.lower() == category.lower(), for one row
CategoryMatches(row, category) ==
    notna(row.Career_category) /\ lower(row.Career_category) = lower(category)

RECURSIVE SuggestionsFrom(_, _)
SuggestionsFrom(i, category) ==
    IF i > Len(df) THEN <<>>
    ELSE (IF CategoryMatches(df[i], category) /\ PresentCells(df[i]) # <<>>
          THEN <<join(PresentCells(df[i]))>>
          ELSE <<>>) \o SuggestionsFrom(i + 1, category)

get_skills_for_category(category) == SuggestionsFrom(1, category)

\* row_skills
RowSkills(row) == UNION {TokenSet(PresentCells(row)[k]) : k \in DOMAIN PresentCells(row)}

Overlap(input_set, row) == Cardinality(input_set \cap RowSkills(row))

\* scores, before sorting: (overlap, row) for the rows with overlap > 0
RECURSIVE ScoresFrom(_, _)
ScoresFrom(i, input_set) ==
    IF i > Len(df) THEN <<>>
    ELSE (IF Overlap(input_set, df[i]) > 0
          THEN <<[overlap |-> Overlap(input_set, df[i]), idx |-> i]>>
          ELSE <<>>) \o ScoresFrom(i + 1, input_set)

\* Faulty variant: the minus sign of the key is lost.
SortKeyAscending(x) == x.overlap

SortKey(x) == 0 - x.overlap

\* Faulty variant: equal keys change places.
RECURSIVE InsertSortedUnstable(_, _)
InsertSortedUnstable(s, x) ==
    IF s = <<>> THEN <<x>>
    ELSE IF SortKey(Head(s)) < SortKey(x)
         THEN <<Head(s)>> \o InsertSortedUnstable(Tail(s), x)
    ELSE <<x>> \o s

\* Where a stable sort puts x among already sorted elements.
RECURSIVE InsertSorted(_, _)
InsertSorted(s, x) ==
    IF s = <<>> THEN <<x>>
    ELSE IF SortKey(Head(s)) <= SortKey(x) THEN <<Head(s)>> \o InsertSorted(Tail(s), x)
    ELSE <<x>> \o s

\* sorted(scores, key=lambda x: -x[0])
RECURSIVE sorted(_)
sorted(s) ==
    IF s = <<>> THEN <<>>
    ELSE InsertSorted(sorted(SubSeq(s, 1, Len(s) - 1)), s[Len(s)])

\* Faulty variant: one entry too many.
SliceToOneMore(s, count) == SubSeq(s, 1, IF count + 1 < Len(s) THEN count + 1 ELSE Len(s))

\* s[:count]
SliceTo(s, count) ==
    IF count >= 0 THEN SubSeq(s, 1, IF count < Len(s) THEN count ELSE Len(s))
    ELSE SubSeq(s, 1, Len(s) + count)

Ranked(skills_input) == sorted(ScoresFrom(1, TokenSet(skills_input)))

ResultDict(x) ==
    [career |-> df[x.idx].Career, category |-> df[x.idx].Career_category,
     education |-> df[x.idx].Recommended_education, score |-> x.overlap]

predict_career_from_skills(skills_input, count) ==
    LET top == SliceTo(Ranked(skills_input), count)
    IN  [k \in 1..Len(top) |-> ResultDict(top[k])]

\* The rows behind the entries of predict_career_from_skills, in order.
PickedRows(skills_input, count) ==
    LET top == SliceTo(Ranked(skills_input), count)
    IN  [k \in 1..Len(top) |-> top[k].idx]

---------------------------------------------------------------------------
(* Chat bridge *)

ErrNotInit == "Error: Gemini client is not initialized. Check API key configuration."

ErrRetries == "Error contacting Gemini API after several retries."

ErrUnexpected == "An unexpected error occurred."

max_retries == 3

\* Faulty variant: linear instead of exponential.
WaitTimeLinear(a) == 2 * a

\* wait_time = 2 ** attempt
WaitTime(a) == 2 ^ a

\* Faulty variant: the last attempt sleeps too.
RetriesAfterAlways(a) == a < max_retries

\* Whether the except branch sleeps and retries (else it gives up).
RetriesAfter(a) == a < max_retries - 1

\* Whether range(max_retries) still yields iteration a.
LoopRuns(a) == a < max_retries

---------------------------------------------------------------------------
(* Request inputs *)

\* "skills" of /predict-career ("" is the default of a missing field).
SkillInputs ==
    { <<>>, <<"a">>, <<"A", " ", ",", "b">>, <<"c", ",", ",", "a">>,
      <<"z">>, <<"P", "r", "o", "g", "r", "a", "m", "m", "i", "n", "g", ",", " ", "A", "I">> }

\* A record's own combined skill string, as /get_category_rows shows it.
OwnInputs == {join(PresentCells(df[i])) : i \in {j \in DOMAIN df : PresentCells(df[j]) # <<>>}}

Counts == (0 - 1)..MaxCount

\* "category" of /get_category_rows ("" is the default).
CategoryInputs ==
    { <<>>, <<"t", "e", "c", "h">>, <<"T", "E", "C", "H">>, <<"e", "d", "u">>,
      <<"T", "e", "c", "h", "n", "o", "l", "o", "g", "y">> }

\* "resume_text" of /analyze_resume ("" is the default).
ResumeTexts ==
    { <<>>, <<"A", " ", "b">>, <<"C", "a", "b">>, <<"z">>,
      <<"I", " ", "l", "o", "v", "e", " ", "c", "o", "d", "i", "n", "g", " ",
        "a", "n", "d", " ", "r", "e", "a", "d", "i", "n", "g">> }

Messages == {"hello", "which skills are in demand?"}

Replies == {"Learn SQL.", ErrRetries}

NoResp == [pending |-> TRUE]

NoReq == [route |-> "none"]

---------------------------------------------------------------------------
(* Startup *)

Init ==
    /\ source \in Sources
    /\ df = LoadDataset(source)
    /\ \E keySet \in BOOLEAN, ctorRaises \in BOOLEAN : client = InitClient(keySet, ctorRaises)
    /\ pc = "idle"
    /\ req = NoReq
    /\ resp = NoResp
    /\ attempt = 0
    /\ outcomes = <<>>
    /\ sleeps = <<>>

---------------------------------------------------------------------------
(* Routes *)

\* The idle worker takes a request.
StartRequest(r) ==
    /\ pc = "idle"
    /\ req' = r

\* known_skills: the stripped, non-empty cells of the rows dropna() keeps
\* (those with all three cells present); list(set(...)) has no order of
\* its own, so the list is kept as the set of its elements.
KnownSkills ==
    LET kept == {i \in DOMAIN df : Len(PresentCells(df[i])) = Len(SkillCols)}
        cells == UNION {Range(PresentCells(df[i])) : i \in kept}
    IN  {strip(c) : c \in {x \in cells : strip(x) # <<>>}}

get_categories_and_skills ==
    /\ StartRequest([route |-> "/get_categories_and_skills"])
    /\ resp' = [categories |-> get_categories, known_skills |-> KnownSkills]
    /\ pc' = "responding"
    /\ UNCHANGED <<source, df, client, attempt, outcomes, sleeps>>

get_category_rows ==
    \E category \in CategoryInputs :
        /\ StartRequest([route |-> "/get_category_rows", category |-> category])
        /\ resp' = [rows |-> get_skills_for_category(category)]
        /\ pc' = "responding"
        /\ UNCHANGED <<source, df, client, attempt, outcomes, sleeps>>

predict_career ==
    \E skills_input \in SkillInputs \cup OwnInputs, count \in Counts :
        /\ StartRequest([route |-> "/predict-career", skills |-> skills_input,
                         count |-> count])
        /\ resp' = [prediction |-> predict_career_from_skills(skills_input, count),
                    picked |-> PickedRows(skills_input, count)]
        /\ pc' = "responding"
        /\ UNCHANGED <<source, df, client, attempt, outcomes, sleeps>>

\* all_skills_data
AllSkillsData == UNION {RowSkills(df[i]) : i \in DOMAIN df}

\* The orders in which a set can be iterated.
IterationOrders(S) ==
    {f \in [1..Cardinality(S) -> S] : Range(f) = S}

\* Faulty variant: the text is not lowercased.
ExtractedSkillsCaseSensitive(text) ==
    IterationOrders({skill \in AllSkillsData : contains(text, skill)})

\* The skills found in the text. They are collected in the iteration order
\* of all_skills_data, which Python leaves open: every order of the found
\* skills is the restriction of some iteration order of the whole set.
ExtractedSkills(text) ==
    LET resume_text == lower(text)
    IN  IterationOrders({skill \in AllSkillsData : contains(resume_text, skill)})

Sentinel ==
    [career |-> <<"N", "/", "A">>, education |-> <<"N", "/", "A">>,
     category |-> <<"N", "/", "A">>]

CareerDetails(extracted_skills) ==
    LET career_pred == predict_career_from_skills(join(extracted_skills), 1)
    IN  IF career_pred # <<>> THEN career_pred[1] ELSE Sentinel

analyze_resume ==
    \E text \in ResumeTexts :
        \E extracted_skills \in ExtractedSkills(text) :
            /\ StartRequest([route |-> "/analyze_resume", resume_text |-> text])
            /\ resp' = [extracted_skills |-> join(extracted_skills),
                        career_details |-> CareerDetails(extracted_skills),
                        picked |-> PickedRows(join(extracted_skills), 1)]
            /\ pc' = "responding"
            /\ UNCHANGED <<source, df, client, attempt, outcomes, sleeps>>

\* The for loop reaches iteration a, or is exhausted and falls to line 110.
EnterIteration(a) ==
    IF LoopRuns(a)
    THEN /\ pc' = "calling"
         /\ attempt' = a
         /\ resp' = NoResp
    ELSE /\ pc' = "responding"
         /\ attempt' = attempt
         /\ resp' = [response |-> ErrUnexpected]

\* Faulty variant: the client is not checked.
chatbotUnchecked ==
    \E message \in Messages :
        /\ StartRequest([route |-> "/chatbot", message |-> message])
        /\ EnterIteration(0)
        /\ UNCHANGED <<source, df, client, outcomes, sleeps>>

\* /chatbot calls chat_with_gemini, up to its first external call.
chatbot ==
    \E message \in Messages :
        /\ StartRequest([route |-> "/chatbot", message |-> message])
        /\ IF client = None
           THEN /\ resp' = [response |-> ErrNotInit]
                /\ pc' = "responding"
                /\ UNCHANGED attempt
           ELSE EnterIteration(0)
        /\ UNCHANGED <<source, df, client, outcomes, sleeps>>

\* generate_content returns and response.text is returned.
GenerateContentReturns ==
    \E text \in Replies :
        /\ pc = "calling"
        /\ outcomes' = Append(outcomes, [raised |-> FALSE, text |-> text])
        /\ resp' = [response |-> text]
        /\ pc' = "responding"
        /\ UNCHANGED <<source, df, client, req, attempt, sleeps>>

\* generate_content raises: sleep and retry, or give up on the last attempt.
GenerateContentRaises ==
    /\ pc = "calling"
    /\ outcomes' = Append(outcomes, [raised |-> TRUE])
    /\ IF RetriesAfter(attempt)
       THEN /\ sleeps' = Append(sleeps, WaitTime(attempt))
            /\ pc' = "sleeping"
            /\ UNCHANGED resp
       ELSE /\ resp' = [response |-> ErrRetries]
            /\ pc' = "responding"
            /\ UNCHANGED sleeps
    /\ UNCHANGED <<source, df, client, req, attempt>>

\* time.sleep returns and the loop goes on.
SleepReturns ==
    /\ pc = "sleeping"
    /\ EnterIteration(attempt + 1)
    /\ UNCHANGED <<source, df, client, req, outcomes, sleeps>>

\* jsonify(...) is sent; the request's locals and the logs kept of it go.
SendResponse ==
    /\ pc = "responding"
    /\ pc' = "idle"
    /\ req' = NoReq
    /\ resp' = NoResp
    /\ attempt' = 0
    /\ outcomes' = <<>>
    /\ sleeps' = <<>>
    /\ UNCHANGED <<source, df, client>>

Next ==
    \/ get_categories_and_skills
    \/ get_category_rows
    \/ predict_career
    \/ analyze_resume
    \/ chatbot
    \/ GenerateContentReturns
    \/ GenerateContentRaises
    \/ SleepReturns
    \/ SendResponse

Spec == Init /\ [][Next]_vars

---------------------------------------------------------------------------
(* Properties *)

\* The handler of route has produced the response of the current request.
Handled(route) == pc = "responding" /\ req.route = route

Min(a, b) == IF a < b THEN a ELSE b

RECURSIVE Sum(_)
Sum(s) == IF s = <<>> THEN 0 ELSE Head(s) + Sum(Tail(s))

\* The indices in S, ascending.
RECURSIVE Ascending(_)
Ascending(S) ==
    IF S = {} THEN <<>>
    ELSE LET m == CHOOSE x \in S : \A y \in S : x <= y
         IN  <<m>> \o Ascending(S \ {m})

\* Rows sharing at least one token with the query.
MatchingRows(skills_input) ==
    {i \in DOMAIN df : Cardinality(TokenSet(skills_input) \cap RowSkills(df[i])) >= 1}

ScoreOf(skills_input, i) == Cardinality(TokenSet(skills_input) \cap RowSkills(df[i]))

\* C1: the entries of a prediction (topK >= 1) are ordered by score,
\* non-increasing, and entries of equal score are in the order of their
\* rows in the dataset.
C1_RankedStable ==
    (Handled("/predict-career") /\ req.count >= 1) =>
        \A i, j \in DOMAIN resp.prediction :
            i < j =>
                /\ resp.prediction[i].score >= resp.prediction[j].score
                /\ resp.prediction[i].score = resp.prediction[j].score
                       => resp.picked[i] < resp.picked[j]

\* A prediction holding a tie and a row moved in front of an earlier row.
C1_Witness ==
    /\ Handled("/predict-career")
    /\ req.count >= 1
    /\ \E i, j \in DOMAIN resp.prediction :
           i < j /\ resp.prediction[i].score = resp.prediction[j].score
    /\ \E i, j \in DOMAIN resp.picked : i < j /\ resp.picked[i] > resp.picked[j]

\* C2: a prediction (topK >= 1) is the first min(topK, m) entries of the
\* ranking of the m rows with overlap >= 1: never longer than topK, no row
\* of overlap 0, no row twice, no padding, every score the overlap of its
\* row; every row left out ranks after every row returned.
C2_TopKOfMatching ==
    (Handled("/predict-career") /\ req.count >= 1) =>
        LET m == Cardinality(MatchingRows(req.skills))
            n == Len(resp.prediction)
        IN  /\ n = Min(req.count, m)
            /\ Len(resp.picked) = n
            /\ \A k \in 1..n :
                   /\ resp.picked[k] \in MatchingRows(req.skills)
                   /\ resp.prediction[k] =
                          [career |-> df[resp.picked[k]].Career,
                           category |-> df[resp.picked[k]].Career_category,
                           education |-> df[resp.picked[k]].Recommended_education,
                           score |-> ScoreOf(req.skills, resp.picked[k])]
                   /\ \A l \in 1..n : l # k => resp.picked[l] # resp.picked[k]
                   /\ \A j \in MatchingRows(req.skills) \ Range(resp.picked) :
                          \/ ScoreOf(req.skills, j) < resp.prediction[k].score
                          \/ /\ ScoreOf(req.skills, j) = resp.prediction[k].score
                             /\ j > resp.picked[k]
            /\ TokenSet(req.skills) = {} => resp.prediction = <<>>

\* A prediction cut to topK = 2 of three matching rows.
C2_Witness ==
    /\ Handled("/predict-career")
    /\ req.count = 2
    /\ Cardinality(MatchingRows(req.skills)) = 3
    /\ Len(resp.prediction) = 2

NoDuplicateRecords == \A i, j \in DOMAIN df : i # j => df[i] # df[j]

\* The rows whose combined skill string is the query.
OwnersOf(skills_input) ==
    {r \in DOMAIN df : PresentCells(df[r]) # <<>> /\ skills_input = join(PresentCells(df[r]))}

\* C3 as stated: in a dataset without duplicate records, a record's own
\* combined skill string with topK = 1 returns exactly that record, with
\* score the number of its distinct tokens.
C3_RoundTripAsStated ==
    (Handled("/predict-career") /\ req.count = 1 /\ NoDuplicateRecords) =>
        \A r \in OwnersOf(req.skills) :
            /\ Len(resp.prediction) = 1
            /\ resp.picked[1] = r
            /\ resp.prediction[1].score = Cardinality(RowSkills(df[r]))

\* C3 amended: a record with at least one token, queried with its own
\* combined skill string and topK = 1, gets exactly one result whose score
\* is the number of its distinct tokens; the result is the first record of
\* the dataset that holds all of its tokens, which is the record itself
\* exactly when no earlier record does.
C3_RoundTripFirstSuperset ==
    (Handled("/predict-career") /\ req.count = 1) =>
        \A r \in OwnersOf(req.skills) :
            RowSkills(df[r]) # {} =>
                /\ Len(resp.prediction) = 1
                /\ resp.prediction[1].score = Cardinality(RowSkills(df[r]))
                /\ RowSkills(df[r]) \subseteq RowSkills(df[resp.picked[1]])
                /\ \A j \in 1..(resp.picked[1] - 1) :
                       ~(RowSkills(df[r]) \subseteq RowSkills(df[j]))
                /\ resp.picked[1] <= r

\* A record found by its own string behind an earlier, partly matching one.
C3_Witness ==
    /\ Handled("/predict-career")
    /\ req.count = 1
    /\ \E r \in OwnersOf(req.skills) :
           /\ r > 1
           /\ resp.picked = <<r>>
           /\ RowSkills(df[1]) \cap RowSkills(df[r]) # {}

ChatAllRaised == \A k \in DOMAIN outcomes : outcomes[k].raised

\* C4: with a client, while every call of the request has failed: the
\* k-th failure before the last is followed by a sleep of 2^(k-1), and the
\* request ends after exactly 3 calls and the sleeps 1, 2 (none after the
\* third failure) with the fixed retries-exhausted string.
C4_AllFailThreeAttempts ==
    (client # None /\ req.route = "/chatbot" /\ ChatAllRaised) =>
        /\ \A k \in DOMAIN sleeps : sleeps[k] = 2 ^ (k - 1)
        /\ pc = "calling" => Len(sleeps) = Len(outcomes) /\ Len(outcomes) < 3
        /\ pc = "sleeping" => Len(sleeps) = Len(outcomes) /\ Len(outcomes) < 3
        /\ pc = "responding" =>
               /\ Len(outcomes) = 3
               /\ sleeps = <<1, 2>>
               /\ resp = [response |-> ErrRetries]

\* A chat request that ended after three failed calls.
C4_Witness ==
    /\ Handled("/chatbot")
    /\ client # None
    /\ Len(outcomes) = 3
    /\ ChatAllRaised

\* C5: without a client every chat request is answered at once with the
\* fixed not-initialized string, no external call is made, nothing sleeps,
\* and the client stays unset.
C5_NoClientNoCalls ==
    /\ [](client = None =>
            /\ pc \in {"idle", "responding"}
            /\ outcomes = <<>>
            /\ sleeps = <<>>
            /\ Handled("/chatbot") => resp = [response |-> ErrNotInit])
    /\ [][client = None => client' = None]_vars

\* A chat request answered without a client.
C5_Witness ==
    /\ client = None
    /\ Handled("/chatbot")
    /\ resp = [response |-> ErrNotInit]

FirstSuccess == CHOOSE k \in DOMAIN outcomes : ~outcomes[k].raised

\* C6: a chat request makes at most 3 external calls and sleeps at most 3
\* time units in all, is never stuck before its response, and responds
\* with a string; when a call succeeds it is the last call, all calls
\* before it failed, each of them was followed by one sleep and none
\* follows it, and the response is its text.
C6_ChatBoundedVerbatim ==
    req.route = "/chatbot" =>
        /\ Len(outcomes) <= 3
        /\ Sum(sleeps) <= 3
        /\ pc \in {"calling", "sleeping"} =>
               ENABLED (GenerateContentReturns \/ GenerateContentRaises \/ SleepReturns)
        /\ pc = "calling" => Len(outcomes) < 3
        /\ pc = "responding" =>
               /\ resp.response \in Replies \cup {ErrNotInit, ErrRetries}
               /\ ~ChatAllRaised =>
                      /\ FirstSuccess = Len(outcomes)
                      /\ Len(sleeps) = FirstSuccess - 1
                      /\ resp.response = outcomes[FirstSuccess].text

\* A chat request answered by its third call.
C6_Witness ==
    /\ Handled("/chatbot")
    /\ Len(outcomes) = 3
    /\ ~outcomes[3].raised
    /\ sleeps = <<1, 2>>
    /\ resp.response = outcomes[3].text

\* The dataset tokens that occur in the lowercased resume text.
FoundTokens == {t \in AllSkillsData : contains(lower(req.resume_text), t)}

\* C7: career_details is the sentinel without a score exactly when no
\* dataset token occurs in the lowercased text; otherwise it is the first
\* result of matching the returned skills with topK = 1, a record of the
\* dataset, with a score from 1 to the number of tokens found.
C7_SentinelIffNothingFound ==
    Handled("/analyze_resume") =>
        /\ resp.career_details = Sentinel <=> FoundTokens = {}
        /\ FoundTokens = {} => "score" \notin DOMAIN resp.career_details
        /\ FoundTokens # {} =>
               /\ TokenSet(resp.extracted_skills) = FoundTokens
               /\ <<resp.career_details>> =
                      predict_career_from_skills(resp.extracted_skills, 1)
               /\ \E i \in DOMAIN df :
                      /\ resp.career_details.career = df[i].Career
                      /\ resp.career_details.category = df[i].Career_category
                      /\ resp.career_details.education = df[i].Recommended_education
                      /\ resp.career_details.score = ScoreOf(resp.extracted_skills, i)
               /\ resp.career_details.score >= 1
               /\ resp.career_details.score <= Cardinality(FoundTokens)

\* A resume with two tokens found (one only by lowercasing) of which the
\* best record holds one.
C7_Witness ==
    /\ Handled("/analyze_resume")
    /\ Cardinality(FoundTokens) = 2
    /\ resp.career_details.score = 1
    /\ \E t \in FoundTokens : ~contains(req.resume_text, t)

EqualIgnoringCase(a, b) == notna(a) /\ lower(a) = lower(b)

SameCategoryArgs ==
    \A c \in CategoryInputs :
        lower(c) = lower(req.category) => get_skills_for_category(c) = resp.rows

\* C8 as stated: the rows of a category are one combined string for each
\* row whose category equals the argument ignoring case, in row order, and
\* arguments differing only in case give the same rows.
C8_RowsAsStated ==
    Handled("/get_category_rows") =>
        LET hits == Ascending({i \in DOMAIN df :
                                 EqualIgnoringCase(df[i].Career_category, req.category)})
        IN  /\ Len(resp.rows) = Len(hits)
            /\ \A k \in DOMAIN hits :
                   k \in DOMAIN resp.rows /\ resp.rows[k] = join(PresentCells(df[hits[k]]))
            /\ SameCategoryArgs

\* C8 amended: one combined string for each row whose category equals the
\* argument ignoring case and that has at least one of the three cells
\* present, in row order; arguments differing only in case give the same
\* rows.
C8_RowsWithCells ==
    Handled("/get_category_rows") =>
        LET hits == Ascending({i \in DOMAIN df :
                                 /\ EqualIgnoringCase(df[i].Career_category, req.category)
                                 /\ \E col \in Range(SkillCols) : notna(df[i][col])})
        IN  /\ Len(resp.rows) = Len(hits)
            /\ \A k \in DOMAIN hits :
                   resp.rows[k] = join(SelectSeq(<<df[hits[k]].Skill, df[hits[k]].Interests,
                                                   df[hits[k]].Hobby>>, notna))
            /\ SameCategoryArgs

\* Rows of a category given in another case, with a row of no cells skipped.
C8_Witness ==
    /\ Handled("/get_category_rows")
    /\ Len(resp.rows) >= 1
    /\ \E i \in DOMAIN df :
           /\ EqualIgnoringCase(df[i].Career_category, req.category)
           /\ PresentCells(df[i]) = <<>>
    /\ \E j \in DOMAIN df :
           /\ EqualIgnoringCase(df[j].Career_category, req.category)
           /\ PresentCells(df[j]) # <<>>
           /\ df[j].Career_category # req.category

\* C9: the dataset is never empty, is the fallback table of 3 rows
\* whenever the source was missing, unreadable or had no rows, and is
\* otherwise the table read at startup, whatever requests were handled.
C9_DatasetFixedNonEmpty ==
    /\ df # <<>>
    /\ (source.kind = "table" /\ source.rows # <<>>) => df = source.rows
    /\ ~(source.kind = "table" /\ source.rows # <<>>) =>
           /\ df = MockDF
           /\ Len(df) = 3
           /\ Cardinality({df[i].Career_category : i \in DOMAIN df}) = 3

\* A resume analysed on the fallback table that replaced an empty file.
C9_Witness ==
    /\ source.kind = "table"
    /\ source.rows = <<>>
    /\ df = MockDF
    /\ Handled("/analyze_resume")
    /\ resp.career_details # Sentinel

\* C10 as stated: known_skills of /get_categories_and_skills is the set of
\* distinct lowercased, trimmed, non-empty comma-split tokens of all rows,
\* the set analyze_resume iterates.
C10_KnownSkillsAreTokens ==
    Handled("/get_categories_and_skills") =>
        LET tokens == UNION {IF notna(df[i][col]) THEN TokenSet(df[i][col]) ELSE {} :
                               i \in DOMAIN df, col \in Range(SkillCols)}
        IN  /\ AllSkillsData = tokens
            /\ resp.known_skills = tokens

=============================================================================
